---- MODULE Spec2Model ----
(***************************************************************************)
(* Credit-claim pipeline of the Healing Temple community backend:          *)
(*   routes/credits  (POST /submit, POST /submit-processed, GET /balance,  *)
(*                    GET /admin/pending, PATCH /admin/review/:id)         *)
(*   services/aiService  (processWithAI)                                   *)
(*   services/claudeVoiceService, services/optimalClaudeService            *)
(*   screens/credits/ManualCreditSubmissionScreen  (the manual form)       *)
(*   prisma schema  (CreditSubmission, StoreCredit)                        *)
(*                                                                         *)
(* Spec is the request pipeline; CalcSpec applies the service functions    *)
(* to their inputs; LedgerSpec reads balances over the store_credits table.*)
(*                                                                         *)
(* Units: money is in cents, the extraction service's confidence is in     *)
(* thousandths, the stored confidence (Decimal(3,2)) is in hundredths.     *)
(* Every await of a handler is a suspension point: a handler is a sequence *)
(* of atomic steps (one per store operation or external call) and steps of *)
(* different requests interleave freely.  A step runs the handler from one *)
(* store operation or external answer up to the call of the next one.      *)
(***************************************************************************)
EXTENDS Integers, Sequences, FiniteSets, Bags, TLC

\* ------------------------------------------------------------------ bounds
MaxReq == 3                  \* requests handled in one run
MaxConcurrent == 2           \* requests in progress at the same time
MaxSubs == 2                 \* claims created in one run
MaxLedger == 2               \* rows of store_credits in a run of the ledger
MaxClock == 1                \* days that pass in a run of the ledger
MaxTurns == 3                \* voice turns of one conversation of the screen

\* ------------------------------------------------------------- input sets
Users == {"m1", "s1", "s2"}
Submitters == {"s1"}

Role(u) == CASE u = "m1" -> "MEMBER"
             [] u = "s1" -> "STAFF"
             [] u = "s2" -> "ADMIN"

RawInputs == {"I helped sell a yoga mat to Sarah around 2pm",
              "too short"}

\* what the extraction service answers (aiData): a missing field is "" or 0
AIResponses ==
  { [assistanceType |-> "consultation",    confidenceScore |-> 800,  estimatedSaleValue |-> 0],
    [assistanceType |-> "recommendation",  confidenceScore |-> 790,  estimatedSaleValue |-> 0],
    [assistanceType |-> "upsell",          confidenceScore |-> 1400, estimatedSaleValue |-> 100000] }

\* bodies of POST /submit-processed
ProcessedBodies ==
  { [originalTranscript |-> "sold tea to Bob", assistanceType |-> "problem_solving",
     estimatedCredit |-> 15000, confidence |-> 800],
    [originalTranscript |-> "", assistanceType |-> "assistance",
     estimatedCredit |-> 500, confidence |-> 790],
    [originalTranscript |-> "", assistanceType |-> "other",
     estimatedCredit |-> 100, confidence |-> 1400] }

NoAmount == -1               \* a null Decimal / an absent approvedAmount
NoUser == ""                 \* a null reviewedBy
NoNotes == ""                \* a null / absent reviewNotes

\* query strings of GET /admin/pending (an absent parameter is its default)
PendingQueries == { [page |-> 1, limit |-> 20], [page |-> 0, limit |-> 20] }

\* bodies of PATCH /admin/review/:id
ReviewBodies ==
  { [status |-> "APPROVED", approvedAmount |-> NoAmount, reviewNotes |-> NoNotes],
    [status |-> "APPROVED", approvedAmount |-> 500,      reviewNotes |-> "ok"],
    [status |-> "REJECTED", approvedAmount |-> NoAmount, reviewNotes |-> "insufficient detail"],
    [status |-> "UNDER_REVIEW", approvedAmount |-> NoAmount, reviewNotes |-> NoNotes] }

\* -------------------------------------------------------------- the state
VARIABLES
  submissions,   \* table credit_submissions, in order of creation (id = index)
  storeCredits,  \* table store_credits, in order of creation (id = index)
  reqs,          \* the requests in progress: position in the handler, locals
  responses,     \* the responses sent so far (a bag)
  now,           \* the clock (Date.now(), new Date()), in days
  call,          \* the call of a service function or of a read handler under
                 \* study: its arguments and, once it has returned, its result
  screen         \* VoiceCreditSubmissionScreen: conversation, currentSubmission,
                 \* isRecording, and whether the success alert is open

vars == <<submissions, storeCredits, reqs, responses, now, call, screen>>

NoCall == [fn |-> "none", pc |-> "none"]

\* useState<any>(null) of currentSubmission
NoSubmission == [assistanceType |-> "none"]

\* the message of addWelcomeMessage (its text is numbered 0)
WelcomeMessage == [type |-> "ai", text |-> 0]

\* the voice screen after it is mounted: setConversation([welcomeMessage])
WelcomeScreen ==
  [conversation |-> <<WelcomeMessage>>, currentSubmission |-> NoSubmission,
   isRecording |-> FALSE, alert |-> FALSE]

Req == 1..MaxConcurrent

Idle == [kind |-> "none", pc |-> "idle", userId |-> NoUser, subId |-> 0, data |-> <<>>]

\* a request waiting at an await
Waiting(kind, pc, u, id, data) ==
  [kind |-> kind, pc |-> pc, userId |-> u, subId |-> id, data |-> data]

\* a response (res.status(code).json, or the AppError / error thrown) to a
\* request of the given kind about the claim id (0: about no claim)
Response(kind, id, code, msg) ==
  [kind |-> kind, subId |-> id, code |-> code, msg |-> msg, list |-> <<>>]

\* request r goes on to its next await
Continue(r, rec) ==
  /\ reqs' = [reqs EXCEPT ![r] = rec]
  /\ UNCHANGED <<responses, now, call, screen>>

\* request r sends its response and ends
Finish(r, resp) ==
  /\ reqs' = [reqs EXCEPT ![r] = Idle]
  /\ responses' = responses (+) SetToBag({resp})
  /\ UNCHANGED <<now, call, screen>>

InProgress == {q \in Req : reqs[q].pc # "idle"}

\* a new request may start (in the lowest free slot)
CanStart(r) ==
  /\ reqs[r].pc = "idle"
  /\ \A q \in Req : q < r => reqs[q].pc # "idle"
  /\ BagCardinality(responses) + Cardinality(InProgress) < MaxReq

\* a submission request may start
CanSubmit(r) ==
  /\ CanStart(r)
  /\ Len(submissions) + Cardinality({q \in Req : reqs[q].pc = "ai"}) < MaxSubs

\* the outcomes of a store operation: it succeeds (TRUE), or the store is
\* unavailable and the call throws (FALSE)
StoreOutcomes == BOOLEAN

Init == /\ submissions = <<>>
        /\ storeCredits = <<>>
        /\ reqs = [r \in Req |-> Idle]
        /\ responses = EmptyBag
        /\ now = 0
        /\ call = NoCall
        /\ screen = WelcomeScreen

\* ------------------------------------------------ services/aiService.ts
ASSISTANCE_TYPES == {"recommendation", "assistance", "consultation", "problem_solving"}

\* ASSISTANCE_TYPES[t]?.rate || 0.03, in percent
BaseRate(t) == CASE t = "recommendation"  -> 3
                 [] t = "assistance"      -> 7
                 [] t = "consultation"    -> 12
                 [] t = "problem_solving" -> 18
                 [] OTHER                 -> 3

\* defaultCredits[t] || 2, in cents
DefaultCredit(t) == CASE t = "recommendation"  -> 200
                      [] t = "assistance"      -> 500
                      [] t = "consultation"    -> 1000
                      [] t = "problem_solving" -> 1500
                      [] OTHER                 -> 200

Min(a, b) == IF a <= b THEN a ELSE b
Max(a, b) == IF a >= b THEN a ELSE b

AICreditCap == 5000          \* Math.min(estimatedCredit, 50), in cents

\* a clamp whose upper bound is 1.1
ClampConfidence_WrongUpperBound(c) == Max(100, Min(1100, IF c = 0 THEN 500 ELSE c))

\* Math.max(0.1, Math.min(1.0, aiData.confidenceScore || 0.5)), in thousandths
ClampConfidence(c) == Max(100, Min(1000, IF c = 0 THEN 500 ELSE c))

\* the credit of processWithAI, in cents: (sale x rate | default) x confidence,
\* capped, then rounded once (Math.round rounds half up).  The product is
\* carried in 1/100000 of a cent so that no intermediate rounding happens.
EstimatedCredit(t, conf, sale) ==
  LET base   == IF sale > 0 THEN sale * BaseRate(t) ELSE DefaultCredit(t) * 100
      scaled == base * conf
      capped == Min(scaled, AICreditCap * 100000)
  IN  (capped + 50000) \div 100000

\* the try branch of processWithAI, applied to the parsed answer
AIResultOf(aiData) ==
  LET assistanceType  == IF aiData.assistanceType = "" THEN "recommendation"
                         ELSE aiData.assistanceType
      confidenceScore == ClampConfidence(aiData.confidenceScore)
      saleValue       == Max(0, aiData.estimatedSaleValue)
  IN  [processedData   |-> "ai",
       assistanceType  |-> assistanceType,
       confidenceScore |-> confidenceScore,
       estimatedCredit |-> EstimatedCredit(assistanceType, confidenceScore, saleValue)]

\* a fallback that claims a high confidence
FallbackResult_Confident ==
  [processedData   |-> "fallback",
   assistanceType  |-> "recommendation",
   confidenceScore |-> 900,
   estimatedCredit |-> 100]

\* the catch branch of processWithAI
FallbackResult ==
  [processedData   |-> "fallback",
   assistanceType  |-> "recommendation",
   confidenceScore |-> 300,
   estimatedCredit |-> 100]

\* ------------------------------------------------------- prisma schema
\* Decimal(3,2): a confidence in thousandths stored in hundredths (rounded half up)
ToDecimal32(c) == (c + 5) \div 10

\* a store_credits table without the unique index on credit_submission_id
UniqueViolation_NoIndex(credits, subId) == FALSE

\* StoreCredit.creditSubmissionId is @unique
UniqueViolation(credits, subId) ==
  \E i \in 1..Len(credits) : credits[i].creditSubmissionId = subId

CreditLifetime == 365        \* Date.now() + 365 * 24 * 60 * 60 * 1000, in days

NoExpiry == -1               \* a null expiresAt

NewStoreCredit(credits, userId, subId, amount) ==
  [id |-> Len(credits) + 1, userId |-> userId, creditSubmissionId |-> subId,
   amount |-> amount, creditType |-> "earned", isRedeemed |-> FALSE,
   expiresAt |-> now + CreditLifetime]

NewSubmission(subs, userId, rawInput, processedData, assistanceType, confidence, claimedAmount, status) ==
  [id |-> Len(subs) + 1, userId |-> userId, rawInput |-> rawInput,
   processedData |-> processedData, assistanceType |-> assistanceType,
   confidenceScore |-> ToDecimal32(confidence), claimedAmount |-> claimedAmount,
   approvedAmount |-> NoAmount, status |-> status,
   reviewedBy |-> NoUser, reviewNotes |-> NoNotes, submittedAt |-> now]

\* ------------------------------------------------ routes/credits.ts
AutoApproveThreshold == 800  \* confidence >= 0.8, in thousandths

\* a decision that approves only above the threshold
InitialStatus_StrictlyAbove(confidence) ==
  IF confidence > AutoApproveThreshold THEN "APPROVED" ELSE "PENDING"

\* status: confidence >= 0.8 ? 'APPROVED' : 'PENDING'
InitialStatus(confidence) ==
  IF confidence >= AutoApproveThreshold THEN "APPROVED" ELSE "PENDING"

\* body('rawInput').trim().isLength({ min: 10, max: 1000 })
ValidRawInput(text) == Len(text) >= 10 /\ Len(text) <= 1000

\* POST /submit up to the call of the extraction service
SubmitStart(r, u, text) ==
  /\ CanSubmit(r)
  /\ IF ValidRawInput(text)
     THEN Continue(r, Waiting("submit", "ai", u, 0, [rawInput |-> text]))
     ELSE Finish(r, Response("submit", 0, 400, "Validation failed"))
  /\ UNCHANGED <<submissions, storeCredits>>

\* POST /submit from the settling of the extraction call up to and including
\* prisma.creditSubmission.create, given what processWithAI returned
SubmitCreate(r, aiResult, ok) ==
  LET u   == reqs[r].userId
      sub == NewSubmission(submissions, u, reqs[r].data.rawInput,
                           aiResult.processedData, aiResult.assistanceType,
                           aiResult.confidenceScore, aiResult.estimatedCredit,
                           InitialStatus(aiResult.confidenceScore))
  IN IF ~ok
     THEN /\ Finish(r, Response("submit", 0, 500, "Failed to process credit submission"))
          /\ UNCHANGED <<submissions, storeCredits>>
     ELSE /\ submissions' = Append(submissions, sub)
          /\ IF sub.status = "APPROVED"
             THEN Continue(r, Waiting("submit", "credit", u, sub.id, [submission |-> sub]))
             ELSE Finish(r, Response("submit", sub.id, 201, "created"))
          /\ UNCHANGED storeCredits

\* the extraction service answers: processWithAI returns its result and the
\* handler goes on to create the claim
AIRespond(r, aiData, ok) ==
  /\ reqs[r].kind = "submit" /\ reqs[r].pc = "ai"
  /\ SubmitCreate(r, AIResultOf(aiData), ok)

\* the extraction call throws (or answers nothing, or no JSON): processWithAI
\* returns the fallback and the handler goes on to create the claim
AIFail(r, ok) ==
  /\ reqs[r].kind = "submit" /\ reqs[r].pc = "ai"
  /\ SubmitCreate(r, FallbackResult, ok)

\* POST /submit: prisma.storeCredit.create of an auto-approved claim
SubmitCredit(r, ok) ==
  /\ reqs[r].kind = "submit" /\ reqs[r].pc = "credit"
  /\ LET u   == reqs[r].userId
         sub == reqs[r].data.submission
     IN IF ok /\ ~UniqueViolation(storeCredits, sub.id)
        THEN /\ storeCredits' = Append(storeCredits,
                  NewStoreCredit(storeCredits, u, sub.id, sub.claimedAmount))
             /\ Finish(r, Response("submit", sub.id, 201, "created"))
        ELSE /\ Finish(r, Response("submit", sub.id, 500,
                                   "Failed to process credit submission"))
             /\ UNCHANGED storeCredits
  /\ UNCHANGED submissions

\* validators of POST /submit-processed
ValidProcessedBody(b) ==
  /\ b.assistanceType \in ASSISTANCE_TYPES
  /\ b.estimatedCredit >= 0
  /\ b.confidence >= 0 /\ b.confidence <= 1000

\* processedData.originalTranscript || 'Voice submission'
TranscriptOf(b) ==
  IF b.originalTranscript = "" THEN "Voice submission" ELSE b.originalTranscript

\* POST /submit-processed up to and including prisma.creditSubmission.create
SubmitProcessed(r, u, b, ok) ==
  /\ CanSubmit(r)
  /\ LET sub == NewSubmission(submissions, u, TranscriptOf(b), "client",
                              b.assistanceType, b.confidence, b.estimatedCredit,
                              InitialStatus(b.confidence))
     IN IF ~ValidProcessedBody(b)
        THEN /\ Finish(r, Response("submitProcessed", 0, 400, "Validation failed"))
             /\ UNCHANGED submissions
        ELSE IF ~ok
        THEN /\ Finish(r, Response("submitProcessed", 0, 500,
                                   "Failed to process voice credit submission"))
             /\ UNCHANGED submissions
        ELSE /\ submissions' = Append(submissions, sub)
             /\ IF sub.status = "APPROVED"
                THEN Continue(r, Waiting("submitProcessed", "credit", u, sub.id,
                                         [submission |-> sub]))
                ELSE Finish(r, Response("submitProcessed", sub.id, 201, "created"))
  /\ UNCHANGED storeCredits

\* POST /submit-processed: prisma.storeCredit.create of an auto-approved claim
SubmitProcessedCredit(r, ok) ==
  /\ reqs[r].kind = "submitProcessed" /\ reqs[r].pc = "credit"
  /\ LET u   == reqs[r].userId
         sub == reqs[r].data.submission
     IN IF ok /\ ~UniqueViolation(storeCredits, sub.id)
        THEN /\ storeCredits' = Append(storeCredits,
                  NewStoreCredit(storeCredits, u, sub.id, sub.claimedAmount))
             /\ Finish(r, Response("submitProcessed", sub.id, 201, "created"))
        ELSE /\ Finish(r, Response("submitProcessed", sub.id, 500,
                                   "Failed to process voice credit submission"))
             /\ UNCHANGED storeCredits
  /\ UNCHANGED submissions

\* a role list that lets every authenticated user through
ReviewRoles_Everyone == {"ADMIN", "STAFF", "MEMBER"}

\* the roles handed to requireRole by the two admin routes
ReviewRoles == {"ADMIN", "STAFF"}

\* requireRole(roles): the role of the authenticated user is among roles
requireRole(u, roles) == Role(u) \in roles

\* requireRole(['ADMIN', 'STAFF'])
HasReviewRole(u) == requireRole(u, ReviewRoles)

\* query('page').optional().isInt({ min: 1 }), query('limit').optional().isInt({ min: 1, max: 50 })
ValidPendingQuery(q) == q.page >= 1 /\ q.limit >= 1 /\ q.limit <= 50

\* where: { status: { in: ['PENDING', 'UNDER_REVIEW'] } }
IsPending(sub) == sub.status \in {"PENDING", "UNDER_REVIEW"}

\* skip / take of a query result
Page(rows, skip, take) ==
  SubSeq(rows, skip + 1, Min(Len(rows), skip + take))

\* orderBy: { submittedAt: 'asc' }: the orders in which the store may return
\* the rows; the order of rows of equal submittedAt is not determined
OrderBySubmittedAt(rows) ==
  LET sorted(p) == \A i, j \in DOMAIN rows :
                     i < j => rows[p[i]].submittedAt <= rows[p[j]].submittedAt
  IN  {[i \in DOMAIN rows |-> rows[p[i]]] : p \in {p \in Permutations(DOMAIN rows) : sorted(p)}}

\* creditSubmission.findMany of GET /admin/pending: the pages the store may return
PendingSubmissions(subs, q) ==
  {Page(rows, (q.page - 1) * q.limit, q.limit) :
     rows \in OrderBySubmittedAt(SelectSeq(subs, IsPending))}

\* the ids of the rows of a query result, in order
Ids(rows) == [i \in DOMAIN rows |-> rows[i].id]

\* the answer of GET /admin/pending: the page of claims
PendingResponse(rows) ==
  [Response("pending", 0, 200, "ok") EXCEPT !.list = Ids(rows)]

\* GET /admin/pending
AdminPending(r, u, q) ==
  /\ CanStart(r)
  /\ IF ~HasReviewRole(u)
       THEN Finish(r, Response("pending", 0, 403, "Insufficient permissions"))
     ELSE IF ~ValidPendingQuery(q)
       THEN Finish(r, Response("pending", 0, 400, "Validation failed"))
     ELSE \E rows \in PendingSubmissions(submissions, q) : Finish(r, PendingResponse(rows))
  /\ UNCHANGED <<submissions, storeCredits>>

\* validators of PATCH /admin/review/:id
ValidReviewBody(b) ==
  /\ b.status \in {"APPROVED", "REJECTED"}
  /\ (b.approvedAmount = NoAmount \/ b.approvedAmount >= 0)
  /\ Len(b.reviewNotes) <= 500

\* a status check that only stops rejected claims
IsReviewable_OnlyRejected(status) == status # "REJECTED"

\* submission.status !== 'PENDING' && submission.status !== 'UNDER_REVIEW' negated
IsReviewable(status) == status = "PENDING" \/ status = "UNDER_REVIEW"

\* approvedAmount || submission.claimedAmount  (absent and 0 are both falsy)
ApprovedAmountOf(approvedAmount, claimedAmount) ==
  IF approvedAmount = NoAmount \/ approvedAmount = 0
  THEN claimedAmount ELSE approvedAmount

\* a review that refuses the submitter of the claim
ReviewFind_NoSelfReview(r, u, id, b) ==
  /\ CanStart(r)
  /\ IF ~HasReviewRole(u)
       THEN Finish(r, Response("review", 0, 403, "Insufficient permissions"))
     ELSE IF ~ValidReviewBody(b)
       THEN Finish(r, Response("review", 0, 400, "Validation failed"))
     ELSE IF id \notin DOMAIN submissions
       THEN Finish(r, Response("review", 0, 404, "Submission not found"))
     ELSE IF ~IsReviewable(submissions[id].status)
       THEN Finish(r, Response("review", id, 400, "Submission already reviewed"))
     ELSE IF submissions[id].userId = u
       THEN Finish(r, Response("review", id, 403, "Insufficient permissions"))
     ELSE Continue(r, Waiting("review", "update", u, id,
                              [body |-> b, submission |-> submissions[id]]))
  /\ UNCHANGED <<submissions, storeCredits>>

\* PATCH /admin/review/:id up to and including prisma.creditSubmission.findUnique
\* and the two checks on what it returned
ReviewFind(r, u, id, b) ==
  /\ CanStart(r)
  /\ IF ~HasReviewRole(u)
       THEN Finish(r, Response("review", 0, 403, "Insufficient permissions"))
     ELSE IF ~ValidReviewBody(b)
       THEN Finish(r, Response("review", 0, 400, "Validation failed"))
     ELSE IF id \notin DOMAIN submissions
       THEN Finish(r, Response("review", 0, 404, "Submission not found"))
     ELSE IF ~IsReviewable(submissions[id].status)
       THEN Finish(r, Response("review", id, 400, "Submission already reviewed"))
     ELSE Continue(r, Waiting("review", "update", u, id,
                              [body |-> b, submission |-> submissions[id]]))
  /\ UNCHANGED <<submissions, storeCredits>>

\* prisma.creditSubmission.update({ where: { id }, data }): the row as written
ReviewedSubmission(cur, b, snapshot, reviewerId) ==
  [cur EXCEPT !.status = b.status,
              !.approvedAmount = ApprovedAmountOf(b.approvedAmount, snapshot.claimedAmount),
              !.reviewedBy = reviewerId,
              !.reviewNotes = IF b.reviewNotes = NoNotes THEN @ ELSE b.reviewNotes]

\* PATCH /admin/review/:id: prisma.creditSubmission.update
ReviewUpdate(r, ok) ==
  /\ reqs[r].kind = "review" /\ reqs[r].pc = "update"
  /\ LET u  == reqs[r].userId
         id == reqs[r].subId
         b  == reqs[r].data.body
     IN IF ~ok
        THEN /\ Finish(r, Response("review", id, 500, "Internal server error"))
             /\ UNCHANGED submissions
        ELSE /\ submissions' = [submissions EXCEPT ![id] =
                  ReviewedSubmission(@, b, reqs[r].data.submission, u)]
             /\ IF b.status = "APPROVED"
                THEN Continue(r, [reqs[r] EXCEPT !.pc = "credit"])
                ELSE Finish(r, Response("review", id, 200, "Submission rejected successfully"))
  /\ UNCHANGED storeCredits

\* PATCH /admin/review/:id: prisma.storeCredit.create of an approved claim
ReviewCredit(r, ok) ==
  /\ reqs[r].kind = "review" /\ reqs[r].pc = "credit"
  /\ LET u   == reqs[r].userId
         id  == reqs[r].subId
         b   == reqs[r].data.body
         sub == reqs[r].data.submission
     IN IF ~ok
        THEN /\ Finish(r, Response("review", id, 500, "Internal server error"))
             /\ UNCHANGED storeCredits
        ELSE IF UniqueViolation(storeCredits, id)
        THEN /\ Finish(r, Response("review", id, 500, "Unique constraint failed"))
             /\ UNCHANGED storeCredits
        ELSE /\ storeCredits' = Append(storeCredits,
                  NewStoreCredit(storeCredits, sub.userId, sub.id,
                                 ApprovedAmountOf(b.approvedAmount, sub.claimedAmount)))
             /\ Finish(r, Response("review", id, 200, "Submission approved successfully"))
  /\ UNCHANGED submissions

Next ==
  \/ \E r \in Req, u \in Submitters, text \in RawInputs : SubmitStart(r, u, text)
  \/ \E r \in Req, aiData \in AIResponses, ok \in StoreOutcomes : AIRespond(r, aiData, ok)
  \/ \E r \in Req, ok \in StoreOutcomes : AIFail(r, ok)
  \/ \E r \in Req, ok \in StoreOutcomes : SubmitCredit(r, ok)
  \/ \E r \in Req, u \in Submitters, b \in ProcessedBodies, ok \in StoreOutcomes :
       SubmitProcessed(r, u, b, ok)
  \/ \E r \in Req, ok \in StoreOutcomes : SubmitProcessedCredit(r, ok)
  \/ \E r \in Req, u \in Users, id \in 1..(Len(submissions) + 1), b \in ReviewBodies :
       ReviewFind(r, u, id, b)
  \/ \E r \in Req, ok \in StoreOutcomes : ReviewUpdate(r, ok)
  \/ \E r \in Req, ok \in StoreOutcomes : ReviewCredit(r, ok)
  \/ \E r \in Req, u \in Users, q \in PendingQueries : AdminPending(r, u, q)

Spec == Init /\ [][Next]_vars

\* the handler steps the runtime schedules once their await has settled; the
\* answer of the extraction service (AIRespond, AIFail) is not among them:
\* openai.chat.completions.create is called without a timeout
FairSpec ==
  /\ Spec
  /\ \A r \in Req :
       /\ WF_vars(\E ok \in StoreOutcomes : SubmitCredit(r, ok))
       /\ WF_vars(\E ok \in StoreOutcomes : SubmitProcessedCredit(r, ok))
       /\ WF_vars(\E ok \in StoreOutcomes : ReviewUpdate(r, ok))
       /\ WF_vars(\E ok \in StoreOutcomes : ReviewCredit(r, ok))

\* ------------------------- services/claudeVoiceService.ts (ClaudeVoiceService)
\* what the assistant's reply text contains, as far as the extraction looks
\* at it: mentions is the first group of keywords found ("consultation",
\* "problem", "helped", or "" for none), question is includes('?'), tellMe is
\* includes('tell me more') (which includes 'tell me')
ClaudeResponses ==
  [mentions : {"consultation", "problem", "helped", ""},
   question : BOOLEAN, tellMe : BOOLEAN]

\* the transcript: hasSpecifics is /\d+|time|customer|product|help/i.test(text)
Transcripts == [hasSpecifics : BOOLEAN]

\* the generic questions of the catch branches
TellAgain == "Could you tell me again about how you helped with a sale?"
TellMore == "Could you tell me more about how you helped?"
NoQuestions == <<>>

\* ClaudeVoiceService.extractStructuredData: credit in cents, confidence in
\* thousandths
ClaudeVoiceExtract(resp) ==
  LET level == CASE resp.mentions = "consultation" ->
                      [assistanceType |-> "consultation", estimatedCredit |-> 800, confidence |-> 800]
                 [] resp.mentions = "problem" ->
                      [assistanceType |-> "problem_solving", estimatedCredit |-> 1200, confidence |-> 900]
                 [] resp.mentions = "helped" ->
                      [assistanceType |-> "assistance", estimatedCredit |-> 500, confidence |-> 750]
                 [] OTHER ->
                      [assistanceType |-> "recommendation", estimatedCredit |-> 200, confidence |-> 600]
  IN  [assistanceType  |-> level.assistanceType,
       confidenceScore |-> level.confidence,
       estimatedCredit |-> level.estimatedCredit,
       needsFollowUp   |-> resp.question \/ resp.tellMe,
       followUpQuestions |-> IF resp.question THEN <<"?">> ELSE NoQuestions]

\* the catch branch of ClaudeVoiceService.processVoiceInput
ClaudeVoiceFallback ==
  [assistanceType  |-> "recommendation",
   confidenceScore |-> 300,
   estimatedCredit |-> 100,
   needsFollowUp   |-> FALSE,
   followUpQuestions |-> NoQuestions,
   conversationalResponse |-> TellAgain]

\* ---------------------- services/optimalClaudeService.ts (OptimalClaudeService)
\* baseCredit of extractStructuredData, in cents
OptimalBaseCredit(mentions) == CASE mentions = "consultation" -> 800
                                 [] mentions = "problem"      -> 1200
                                 [] mentions = "helped"       -> 500
                                 [] OTHER                     -> 200

OptimalAssistanceType(mentions) == CASE mentions = "consultation" -> "consultation"
                                     [] mentions = "problem"      -> "problem_solving"
                                     [] mentions = "helped"       -> "assistance"
                                     [] OTHER                     -> "recommendation"

\* OptimalClaudeService.extractStructuredData:
\* estimatedCredit = Math.round(baseCredit * confidence * 100) / 100
OptimalExtract(resp, transcript) ==
  LET confidence    == IF transcript.hasSpecifics THEN 800 ELSE 600
      needsMoreInfo == resp.question /\ resp.tellMe
  IN  [assistanceType  |-> OptimalAssistanceType(resp.mentions),
       confidenceScore |-> confidence,
       estimatedCredit |-> (OptimalBaseCredit(resp.mentions) * confidence + 500) \div 1000,
       needsFollowUp   |-> needsMoreInfo,
       followUpQuestions |-> IF needsMoreInfo THEN <<"?">> ELSE NoQuestions]

\* OptimalClaudeService.getFallbackResponse
getFallbackResponse ==
  [assistanceType  |-> "recommendation",
   confidenceScore |-> 400,
   estimatedCredit |-> 100,
   needsFollowUp   |-> TRUE,
   followUpQuestions |-> <<TellMore>>,
   conversationalResponse |-> TellMore]

\* ------------------- screens/credits/ManualCreditSubmissionScreen.tsx
\* customerTypes[].multiplier, in tenths
CustomerMultiplier(customerType) == CASE customerType = "new"       -> 13
                                      [] customerType = "returning" -> 11
                                      [] customerType = "member"    -> 10
                                      [] OTHER                      -> 10

\* the member tier bonus, in tenths
TierMultiplier(memberTier) == CASE memberTier = "PREMIUM" -> 12
                                [] memberTier = "VIP"     -> 15
                                [] OTHER                  -> 10

ManualCreditCap == 10000     \* Math.min(..., 100) of the manual form, in cents

ManualConfidence == 950      \* confidenceScore: 0.95 of handleSubmit

\* calculateEstimatedCredit of the manual form, in cents: the product is
\* carried in 1/10000 of a cent, rounded (half up) and then capped
calculateEstimatedCredit(form, memberTier) ==
  IF form.assistanceType \notin ASSISTANCE_TYPES \/ form.saleValue <= 0 THEN 0
  ELSE LET baseCredit == form.saleValue * BaseRate(form.assistanceType)
                           * CustomerMultiplier(form.customerType)
                           * TierMultiplier(memberTier)
       IN  Min((baseCredit + 5000) \div 10000, ManualCreditCap)

\* ------------------------------------------- calls of the service functions
\* answers of the extraction service given to processWithAI
CalcAIResponses ==
  [assistanceType : ASSISTANCE_TYPES \cup {""},
   confidenceScore : {0, 790, 800, 1000, 1400},
   estimatedSaleValue : {0, 4500, 30000}]

\* states of the manual form when handleSubmit runs
ManualForms ==
  [assistanceType : ASSISTANCE_TYPES,
   customerType : {"new", "returning", "member"},
   saleValue : {4500, 25000, 30000}]

MemberTiers == {"BASIC", "PREMIUM", "VIP"}

\* a call of fn that has not returned yet; throws: the external call (or the
\* parsing of its answer) throws inside the try block
Called(fn, throws, args) ==
  [fn |-> fn, pc |-> "called", throws |-> throws, args |-> args]

Returned(result) ==
  [fn |-> call.fn, pc |-> "returned", throws |-> call.throws,
   args |-> call.args, result |-> result]

NoArgs == [none |-> TRUE]

CalcCalls ==
  {Called("processWithAI", TRUE, NoArgs)}
  \cup {Called("processWithAI", FALSE, [aiData |-> d]) : d \in CalcAIResponses}
  \cup {Called("ClaudeVoiceService", TRUE, NoArgs)}
  \cup {Called("ClaudeVoiceService", FALSE, [response |-> c]) : c \in ClaudeResponses}
  \cup {Called("OptimalClaudeService", TRUE, NoArgs)}
  \cup {Called("OptimalClaudeService", FALSE, [response |-> c, transcript |-> t]) :
          c \in ClaudeResponses, t \in Transcripts}
  \cup {Called("handleSubmit", FALSE, [form |-> f, memberTier |-> m]) :
          f \in ManualForms, m \in MemberTiers}

CalcInit == /\ submissions = <<>>
            /\ storeCredits = <<>>
            /\ reqs = [r \in Req |-> Idle]
            /\ responses = EmptyBag
            /\ now = 0
            /\ call \in CalcCalls
            /\ screen = WelcomeScreen

Pending(fn) == call.fn = fn /\ call.pc = "called"

\* processWithAI returns: the result of its try branch, or of its catch branch
ProcessWithAIReturn ==
  /\ Pending("processWithAI")
  /\ call' = Returned(IF call.throws THEN FallbackResult ELSE AIResultOf(call.args.aiData))
  /\ UNCHANGED <<submissions, storeCredits, reqs, responses, now, screen>>

\* ClaudeVoiceService.processVoiceInput returns
ClaudeVoiceReturn ==
  /\ Pending("ClaudeVoiceService")
  /\ call' = Returned(IF call.throws THEN ClaudeVoiceFallback
                      ELSE ClaudeVoiceExtract(call.args.response))
  /\ UNCHANGED <<submissions, storeCredits, reqs, responses, now, screen>>

\* OptimalClaudeService.processVoiceInput returns
OptimalReturn ==
  /\ Pending("OptimalClaudeService")
  /\ call' = Returned(IF call.throws THEN getFallbackResponse
                      ELSE OptimalExtract(call.args.response, call.args.transcript))
  /\ UNCHANGED <<submissions, storeCredits, reqs, responses, now, screen>>

\* handleSubmit of the manual form builds submissionData
handleSubmit ==
  /\ Pending("handleSubmit")
  /\ call' = Returned([assistanceType  |-> call.args.form.assistanceType,
                       confidenceScore |-> ManualConfidence,
                       claimedAmount   |-> calculateEstimatedCredit(call.args.form,
                                                                    call.args.memberTier)])
  /\ UNCHANGED <<submissions, storeCredits, reqs, responses, now, screen>>

CalcNext ==
  \/ ProcessWithAIReturn
  \/ ClaudeVoiceReturn
  \/ OptimalReturn
  \/ handleSubmit

CalcSpec == CalcInit /\ [][CalcNext]_vars

\* ------------------------------------- routes/credits.ts: GET /balance
LedgerUsers == {"m1", "s1"}
LedgerAmounts == {150, 275}
Expiries == {NoExpiry, 1}

\* a row of store_credits as the schema allows it: of any user, redeemed or
\* not, with or without an expiry, not tied to a claim
LedgerWrite(u, amount, expiresAt, isRedeemed) ==
  /\ Len(storeCredits) < MaxLedger
  /\ storeCredits' = Append(storeCredits,
        [id |-> Len(storeCredits) + 1, userId |-> u, creditSubmissionId |-> 0,
         amount |-> amount, creditType |-> "adjustment", isRedeemed |-> isRedeemed,
         expiresAt |-> expiresAt])
  /\ UNCHANGED <<submissions, reqs, responses, now, call, screen>>

\* a day passes
Tick ==
  /\ now < MaxClock
  /\ now' = now + 1
  /\ UNCHANGED <<submissions, storeCredits, reqs, responses, call, screen>>

\* a where clause that forgets the expiry
BalanceWhere_IgnoreExpiry(credit, userId) ==
  credit.userId = userId /\ ~credit.isRedeemed

\* where: { userId, isRedeemed: false, OR: [{ expiresAt: null }, { expiresAt: { gt: new Date() } }] }
BalanceWhere(credit, userId) ==
  /\ credit.userId = userId
  /\ ~credit.isRedeemed
  /\ (credit.expiresAt = NoExpiry \/ credit.expiresAt > now)

\* credits.reduce((sum, credit) => sum + credit.amount.toNumber(), 0)
RECURSIVE SumAmounts(_)
SumAmounts(credits) ==
  IF credits = <<>> THEN 0 ELSE Head(credits).amount + SumAmounts(Tail(credits))

\* GET /balance: the three queries and the answer
GetBalance(u) ==
  LET credits == SelectSeq(storeCredits, LAMBDA c : BalanceWhere(c, u))
      earned == SelectSeq(storeCredits, LAMBDA c : c.userId = u)
      redeemed == SelectSeq(storeCredits, LAMBDA c : c.userId = u /\ c.isRedeemed)
  IN  /\ call' = [fn |-> "getBalance", pc |-> "returned", throws |-> FALSE,
                  args |-> [userId |-> u],
                  result |-> [availableBalance |-> SumAmounts(credits),
                              credits |-> Ids(credits),
                              totalEarned |-> SumAmounts(earned),
                              totalRedeemed |-> SumAmounts(redeemed)]]
      /\ UNCHANGED <<submissions, storeCredits, reqs, responses, now, screen>>

\* routes/checkins.ts, POST /checkin and POST /staff/checkin/:qrCode:
\* where: { userId, isRedeemed: false, OR: [{ expiresAt: null }, { expiresAt: { gt: new Date() } }] }
CheckinWhere(credit, userId) ==
  /\ credit.userId = userId
  /\ ~credit.isRedeemed
  /\ (credit.expiresAt = NoExpiry \/ credit.expiresAt > now)

\* routes/users.ts, GET /stats: where: { userId, isRedeemed: false }
StatsWhere(credit, userId) ==
  /\ credit.userId = userId
  /\ ~credit.isRedeemed

\* the credit balance in the answer of a check-in of user u:
\* creditBalance._sum.amount?.toNumber() || 0
Checkin(u) ==
  LET credits == SelectSeq(storeCredits, LAMBDA c : CheckinWhere(c, u))
  IN  /\ call' = [fn |-> "checkin", pc |-> "returned", throws |-> FALSE,
                  args |-> [userId |-> u],
                  result |-> [creditBalance |-> SumAmounts(credits)]]
      /\ UNCHANGED <<submissions, storeCredits, reqs, responses, now, screen>>

\* GET /users/stats: availableCredits: totalCredits._sum.amount || 0
GetStats(u) ==
  LET credits == SelectSeq(storeCredits, LAMBDA c : StatsWhere(c, u))
  IN  /\ call' = [fn |-> "getStats", pc |-> "returned", throws |-> FALSE,
                  args |-> [userId |-> u],
                  result |-> [availableCredits |-> SumAmounts(credits)]]
      /\ UNCHANGED <<submissions, storeCredits, reqs, responses, now, screen>>

LedgerNext ==
  \/ \E u \in LedgerUsers, amount \in LedgerAmounts, e \in Expiries, red \in BOOLEAN :
       LedgerWrite(u, amount, e, red)
  \/ Tick
  \/ \E u \in LedgerUsers : GetBalance(u)
  \/ \E u \in LedgerUsers : Checkin(u)
  \/ \E u \in LedgerUsers : GetStats(u)

LedgerSpec == Init /\ [][LedgerNext]_vars

\* ------------------- routes/credits.ts: PATCH /admin/review/:id with overrides
\* the approvedAmount of a review body: absent, or a float >= 0 (in cents)
Overrides == {NoAmount, 0, 250}

\* the reviewer at the review desk
Reviewers == {"s2"}

\* the bodies of the reviews of the review desk
OverrideBodies ==
  {[status |-> "APPROVED", approvedAmount |-> a, reviewNotes |-> NoNotes] : a \in Overrides}
    \cup {[status |-> "REJECTED", approvedAmount |-> NoAmount, reviewNotes |-> "insufficient detail"]}

\* the claims that POST /submit-processed leaves PENDING
QueuedBodies == {b \in ProcessedBodies : ValidProcessedBody(b) /\ InitialStatus(b.confidence) = "PENDING"}

\* the table after n claims of submitter u were created from body b and queued
RECURSIVE Queued(_, _, _)
Queued(n, u, b) ==
  IF n = 0 THEN <<>>
  ELSE LET subs == Queued(n - 1, u, b)
       IN  Append(subs, NewSubmission(subs, u, TranscriptOf(b), "client", b.assistanceType,
                                      b.confidence, b.estimatedCredit, InitialStatus(b.confidence)))

\* the review desk starts with claims waiting in the queue
ReviewInit ==
  /\ now = 0
  /\ submissions \in {Queued(n, u, b) : n \in 1..MaxSubs, u \in Submitters, b \in QueuedBodies}
  /\ storeCredits = <<>>
  /\ reqs = [r \in Req |-> Idle]
  /\ responses = EmptyBag
  /\ call = NoCall
  /\ screen = WelcomeScreen

ReviewNext ==
  \/ \E r \in Req, u \in Reviewers, id \in DOMAIN submissions, b \in OverrideBodies :
       ReviewFind(r, u, id, b)
  \/ \E r \in Req, ok \in StoreOutcomes : ReviewUpdate(r, ok)
  \/ \E r \in Req, ok \in StoreOutcomes : ReviewCredit(r, ok)

ReviewSpec == ReviewInit /\ [][ReviewNext]_vars

\* ------------------------------ screens/credits/CreditsScreen.tsx (voice)
\* the catch branch of ClaudeCreditService.processVoiceSubmission
VoiceProcessFallback ==
  [assistanceType  |-> "recommendation",
   confidenceScore |-> 500,
   estimatedCredit |-> 200,
   needsFollowUp   |-> TRUE,
   followUpQuestions |-> <<"Could you tell me more details about what you helped with?">>]

\* the answers of POST /credits/voice-process to a turn, and the fallback of
\* the client when the request fails
TurnResults ==
  {ClaudeVoiceExtract(resp) :
     resp \in {x \in ClaudeResponses : x.mentions \in {"consultation", "problem", "helped"} /\ ~x.tellMe}}
    \cup {VoiceProcessFallback}

\* the user turns of the conversation on the screen
UserTurns(conversation) ==
  Cardinality({i \in DOMAIN conversation : conversation[i].type = "user"})

\* conversation.map(m => m.text)
HistoryOf(conversation) == [i \in DOMAIN conversation |-> conversation[i].text]

\* the value stopRecording hands to setCurrentSubmission; processedData is
\* reduced to the turn whose transcript it carries
SubmissionOf(result, turn) ==
  [assistanceType |-> result.assistanceType,
   estimatedCredit |-> result.estimatedCredit,
   confidence |-> result.confidenceScore,
   processedData |-> [originalTranscript |-> turn]]

\* startRecording (the alert of a finished submission is modal)
StartRecording ==
  /\ ~screen.isRecording /\ ~screen.alert
  /\ UserTurns(screen.conversation) < MaxTurns
  /\ screen' = [screen EXCEPT !.isRecording = TRUE]
  /\ UNCHANGED <<submissions, storeCredits, reqs, responses, now, call>>

\* stopRecording: the recording is transcribed (ok) or the transcription
\* throws; the transcript is processed and the answer shown
StopRecording(ok, result) ==
  /\ screen.isRecording
  /\ IF ~ok
     THEN /\ screen' = [screen EXCEPT !.isRecording = FALSE]
          /\ UNCHANGED call
     ELSE LET turn == UserTurns(screen.conversation) + 1
          IN  /\ call' = [fn |-> "processVoiceSubmission", pc |-> "returned", throws |-> FALSE,
                          args |-> [transcript |-> turn,
                                    conversationHistory |-> HistoryOf(screen.conversation),
                                    isFollowUp |-> Len(screen.conversation) > 1],
                          result |-> result]
              /\ screen' = [screen EXCEPT
                     !.isRecording = FALSE,
                     !.conversation = @ \o <<[type |-> "user", text |-> turn],
                                             [type |-> "ai", text |-> turn]>>,
                     !.currentSubmission = IF ~result.needsFollowUp
                                           THEN SubmissionOf(result, turn) ELSE @]
  /\ UNCHANGED <<submissions, storeCredits, reqs, responses, now>>

\* submitClaim: ClaudeCreditService.submitProcessedClaim(currentSubmission)
\* succeeds (ok) and the success alert opens, or throws
SubmitClaim(ok) ==
  /\ ~screen.alert /\ ~screen.isRecording
  /\ screen.currentSubmission # NoSubmission
  /\ call' = [fn |-> "submitProcessedClaim", pc |-> "returned", throws |-> ~ok,
              args |-> screen.currentSubmission]
  /\ screen' = [screen EXCEPT !.alert = ok]
  /\ UNCHANGED <<submissions, storeCredits, reqs, responses, now>>

\* OK of the success alert: reset for a new submission
PressOK ==
  /\ screen.alert
  /\ screen' = WelcomeScreen
  /\ UNCHANGED <<submissions, storeCredits, reqs, responses, now, call>>

ScreenNext ==
  \/ StartRecording
  \/ \E ok \in BOOLEAN, result \in TurnResults : StopRecording(ok, result)
  \/ \E ok \in BOOLEAN : SubmitClaim(ok)
  \/ PressOK

ScreenSpec == Init /\ [][ScreenNext]_vars

\* ------------------------------------------------------------ properties
Terminal(status) == status \in {"APPROVED", "REJECTED"}

SubIds == DOMAIN submissions

CreditsOf(id) ==
  {i \in DOMAIN storeCredits : storeCredits[i].creditSubmissionId = id}

\* how many responses of the given shape were sent
Sent(kind, id, code, msg) == CopiesIn(Response(kind, id, code, msg), responses)

\* the successful answers to reviews of claim id
ReviewSuccesses(id) ==
  Sent("review", id, 200, "Submission approved successfully")
  + Sent("review", id, 200, "Submission rejected successfully")

AlreadyReviewed(id) == Response("review", id, 400, "Submission already reviewed")

\* C1: a review request (role and body accepted) on a claim that is already
\* APPROVED or REJECTED is never let through to the update: a review reaches
\* its update only for a claim that is PENDING or UNDER_REVIEW when read, and
\* the step that answers 'Submission already reviewed' (400) is taken only on
\* an APPROVED or REJECTED claim, writes no store credit and changes no claim
C1_TerminalReviewFails ==
  [][/\ \A r \in Req :
          (reqs[r].pc = "idle" /\ reqs'[r].kind = "review")
          => ~Terminal(submissions[reqs'[r].subId].status)
     /\ \A id \in SubIds :
          CopiesIn(AlreadyReviewed(id), responses') > CopiesIn(AlreadyReviewed(id), responses)
          => ( /\ Terminal(submissions[id].status)
               /\ submissions' = submissions
               /\ storeCredits' = storeCredits
               /\ reqs' = reqs )
     /\ \A id \in SubIds :
          ( /\ Terminal(submissions[id].status)
            /\ reqs' = reqs
            /\ \E resp \in BagToSet(responses') :
                 /\ resp.kind = "review" /\ resp.subId = id
                 /\ CopiesIn(resp, responses') > CopiesIn(resp, responses) )
          => CopiesIn(AlreadyReviewed(id), responses') > CopiesIn(AlreadyReviewed(id), responses)
    ]_vars

C1_Witness ==
  \E id \in SubIds :
    /\ BagIn(AlreadyReviewed(id), responses)
    /\ Terminal(submissions[id].status)

\* C2: of the review requests for one claim, whatever the interleaving of
\* their read and write steps, at most one is answered with success
C2_AtMostOneReviewSucceeds ==
  \A id \in SubIds : ReviewSuccesses(id) <= 1

\* C3: no claim is referenced by more than one store credit
C3_AtMostOneCreditPerClaim ==
  \A id \in SubIds : Cardinality(CreditsOf(id)) <= 1

\* two approvals of the same claim ran concurrently: one created the store
\* credit, the other one's create was refused by the unique index
C3_Witness ==
  \E id \in SubIds :
    /\ Sent("review", id, 200, "Submission approved successfully") = 1
    /\ Sent("review", id, 500, "Unique constraint failed") = 1
    /\ Cardinality(CreditsOf(id)) = 1

\* C4: once a claim is APPROVED or REJECTED its status, reviewer, notes and
\* approved amount never change again
C4_TerminalClaimImmutable ==
  [][\A id \in SubIds :
       Terminal(submissions[id].status)
       => ( /\ submissions'[id].status = submissions[id].status
            /\ submissions'[id].reviewedBy = submissions[id].reviewedBy
            /\ submissions'[id].reviewNotes = submissions[id].reviewNotes
            /\ submissions'[id].approvedAmount = submissions[id].approvedAmount )]_vars

\* C5: every store credit that references a claim references an APPROVED claim
C5_CreditsOnlyForApproved ==
  \A i \in DOMAIN storeCredits :
    submissions[storeCredits[i].creditSubmissionId].status = "APPROVED"

\* C6: when no request is in progress, every APPROVED claim has exactly one
\* store credit, of type earned
C6_ApprovedHasOneCredit ==
  InProgress = {}
  => \A id \in SubIds :
       submissions[id].status = "APPROVED"
       => /\ Cardinality(CreditsOf(id)) = 1
          /\ \A i \in CreditsOf(id) : storeCredits[i].creditType = "earned"

AutoApproveCeiling == 5000   \* "Auto-Approve: ... submissions under $50 credit"

\* C7: a claim that no reviewer has touched is APPROVED exactly when its
\* confidence is at least 0.80 and its claimed amount is at most the ceiling
C7_AutoApproveRule ==
  \A id \in SubIds :
    submissions[id].reviewedBy = NoUser
    => ( submissions[id].status = "APPROVED"
         <=> ( /\ submissions[id].confidenceScore * 10 >= AutoApproveThreshold
               /\ submissions[id].claimedAmount <= AutoApproveCeiling ) )

\* C8: the claimed amount of every claim, and the amount of every store
\* credit of an unreviewed (auto-approved) claim, is at most the credit cap
\* (the larger of the caps the code applies, so that no path is blamed for
\* using the smaller one)
C8_AmountWithinCap ==
  /\ \A id \in SubIds :
       submissions[id].claimedAmount <= Max(AICreditCap, ManualCreditCap)
  /\ \A i \in DOMAIN storeCredits :
       submissions[storeCredits[i].creditSubmissionId].reviewedBy = NoUser
       => storeCredits[i].amount <= Max(AICreditCap, ManualCreditCap)

\* C9: no two claims created by POST /submit for one submitter carry the same
\* text (all requests of a run arrive within one dedup window)
C9_NoDuplicateClaim ==
  \A i, j \in SubIds :
    ( /\ submissions[i].processedData # "client"
      /\ submissions[j].processedData # "client"
      /\ submissions[i].userId = submissions[j].userId
      /\ submissions[i].rawInput = submissions[j].rawInput )
    => i = j

\* C10: every accepted POST /submit that waits for the extraction service
\* eventually has its claim decided (or is answered with a store failure)
C10_SubmissionEventuallyDecided ==
  \A r \in Req :
    (reqs[r].kind = "submit" /\ reqs[r].pc = "ai") ~> (reqs[r].pc # "ai")

\* ------------------------------------- properties of the service functions
ExtractionAdapters == {"processWithAI", "ClaudeVoiceService", "OptimalClaudeService"}

HasReturned(fn) == call.fn = fn /\ call.pc = "returned"

\* C11: when the extraction fails, every adapter returns the same fixed
\* fallback: category recommendation, the low fixed confidence, needsFollowUp
\* true and a clarification question
C11_SameFixedFallback ==
  (call.pc = "returned" /\ call.fn \in ExtractionAdapters /\ call.throws)
  => /\ call.result.assistanceType = "recommendation"
     /\ call.result.confidenceScore = FallbackResult.confidenceScore
     /\ "needsFollowUp" \in DOMAIN call.result
     /\ call.result.needsFollowUp
     /\ call.result.followUpQuestions # NoQuestions

\* the form of Scenario B: a $45 sale, consultation, first-time customer
ScenarioB == [assistanceType |-> "consultation", customerType |-> "new", saleValue |-> 4500]

\* C13: the manual submission of Scenario B by a premium member claims $8.00
C13_ScenarioBAmount ==
  (HasReturned("handleSubmit") /\ call.args.form = ScenarioB /\ call.args.memberTier = "PREMIUM")
  => call.result.claimedAmount = 800

HighValueSale == 20000       \* High-value sale bonus (>$200), in cents

\* the high-value sale bonus (1.4x), in tenths
HighValueMultiplier(saleValue) == IF saleValue > HighValueSale THEN 14 ELSE 10

\* min(cap, base x modifiers x confidence) rounded once to cents (half up):
\* base100 in 1/100 cent, modifiers in thousandths, confidence in thousandths;
\* the product is split at the cent so that it stays within 32 bits
FinalAmount(base100, modifiers, confidence, cap) ==
  LET x == base100 * modifiers
      q == (x \div 100000) * confidence
      r == (x % 100000) * confidence + 50000000
  IN  Min(cap, (q + r \div 100000) \div 1000)

\* C14: the amount of every calculation from a sale value is
\* min(cap, base x product of the applicable modifiers x confidence), rounded
\* once to cents
C14_AmountFormula ==
  /\ (HasReturned("processWithAI") /\ ~call.throws /\ call.args.aiData.estimatedSaleValue > 0)
     => call.result.estimatedCredit =
          FinalAmount(call.args.aiData.estimatedSaleValue * BaseRate(call.result.assistanceType),
                      HighValueMultiplier(call.args.aiData.estimatedSaleValue) * 100,
                      call.result.confidenceScore, AICreditCap)
  /\ HasReturned("handleSubmit")
     => call.result.claimedAmount =
          FinalAmount(call.args.form.saleValue * BaseRate(call.args.form.assistanceType),
                      CustomerMultiplier(call.args.form.customerType)
                        * TierMultiplier(call.args.memberTier)
                        * HighValueMultiplier(call.args.form.saleValue),
                      call.result.confidenceScore, ManualCreditCap)

\* the call is an extraction without a sale value that did not fail
NoSaleValue ==
  /\ call.pc = "returned" /\ call.fn \in ExtractionAdapters /\ ~call.throws
  /\ call.fn = "processWithAI" => call.args.aiData.estimatedSaleValue = 0

\* C15: without a sale value the amount is the default base of the category
\* (one table for every extraction path) x confidence, capped
C15_DefaultBaseAmount ==
  NoSaleValue
  => call.result.estimatedCredit =
       FinalAmount(DefaultCredit(call.result.assistanceType) * 100, 1000,
                   call.result.confidenceScore, AICreditCap)

\* ------------------------------------------------ properties of the routes
Range(seq) == {seq[i] : i \in DOMAIN seq}

\* the claims created from the fallback of processWithAI and not reviewed yet
UnreviewedFallbacks(subs) ==
  {id \in DOMAIN subs : subs[id].processedData = "fallback" /\ subs[id].reviewedBy = NoUser}

\* the page answered by a GET /admin/pending in this step, if any
PendingAnswered ==
  {resp \in BagToSet(responses') :
      /\ resp.kind = "pending" /\ resp.code = 200
      /\ CopiesIn(resp, responses') > CopiesIn(resp, responses)}

\* C12: a claim created from the fallback is never auto-approved: it has the
\* category recommendation and, until a reviewer writes a decision to it, it
\* is PENDING, has no store credit and is on every page 1 that GET
\* /admin/pending answers
C12_FallbackNeverAutoApproved ==
  [][ \A id \in DOMAIN submissions' :
        submissions'[id].processedData = "fallback"
        => /\ submissions'[id].assistanceType = "recommendation"
           /\ id \in UnreviewedFallbacks(submissions')
              => /\ submissions'[id].status = "PENDING"
                 /\ \A i \in DOMAIN storeCredits' : storeCredits'[i].creditSubmissionId # id
                 /\ \A resp \in PendingAnswered : id \in Range(resp.list) ]_vars

C12_Witness ==
  \E id \in UnreviewedFallbacks(submissions) :
    /\ submissions[id].status = "PENDING"
    /\ CreditsOf(id) = {}
    /\ \E resp \in BagToSet(responses) :
         resp.kind = "pending" /\ resp.code = 200 /\ id \in Range(resp.list)

\* C16: the stored confidence of every claim is within [0, 1] (0..100
\* hundredths): processWithAI clamps what the extraction answers and POST
\* /submit-processed refuses a confidence outside the range
C16_ConfidenceInRange ==
  \A id \in SubIds :
    submissions[id].confidenceScore >= 0 /\ submissions[id].confidenceScore <= 100

\* the extraction answered 1.4 and the claim stores 1.00; a POST
\* /submit-processed was refused
C16_Witness ==
  /\ \E id \in SubIds :
       /\ submissions[id].processedData = "ai"
       /\ submissions[id].assistanceType = "upsell"
       /\ submissions[id].confidenceScore = 100
  /\ Sent("submitProcessed", 0, 400, "Validation failed") >= 1

\* the confidence (in thousandths) the handler compared when it created the
\* claim: each input of AIResponses and of ProcessedBodies has its own category
DecisionConfidence(sub) ==
  CASE sub.processedData = "ai" ->
         ClampConfidence((CHOOSE d \in AIResponses :
                            d.assistanceType = sub.assistanceType).confidenceScore)
    [] sub.processedData = "fallback" -> FallbackResult.confidenceScore
    [] sub.processedData = "client" ->
         (CHOOSE b \in ProcessedBodies : b.assistanceType = sub.assistanceType).confidence

ApprovedWithoutOverride ==
  {r \in Req : /\ reqs[r].kind = "review" /\ reqs[r].pc = "update"
               /\ reqs'[r].pc = "credit"
               /\ reqs[r].data.body.approvedAmount = NoAmount}

\* C18: the amount of the store credit of every approved claim (approved at
\* creation or by a reviewer) is the approved amount of the claim, and an
\* approval without an override sets the approved amount to the claimed amount
C18_LedgerAmountIsApprovedAmount ==
  [][ /\ \A i \in DOMAIN storeCredits' :
           LET sub == submissions'[storeCredits'[i].creditSubmissionId]
           IN  sub.status = "APPROVED" => storeCredits'[i].amount = sub.approvedAmount
      /\ \A r \in ApprovedWithoutOverride :
           submissions'[reqs[r].subId].approvedAmount
             = submissions'[reqs[r].subId].claimedAmount ]_vars

\* the users who are neither staff nor admin
Unprivileged == {u \in Users : Role(u) \notin {"STAFF", "ADMIN"}}

\* the step answers 403 to a request of the given kind and changes no table
Refused(kind) ==
  /\ responses' = responses (+) SetToBag({Response(kind, 0, 403, "Insufficient permissions")})
  /\ submissions' = submissions
  /\ storeCredits' = storeCredits

\* C19: every PATCH /admin/review/:id and every GET /admin/pending of a user
\* who is neither STAFF nor ADMIN is answered with the authorization error
\* (403) and changes no claim and no store credit.  (A request that starts in
\* slot r either goes on as a review or is answered at once, leaving the
\* slots as they were: only such steps can be a step of such a request.)
C19_UnprivilegedRefused ==
  [][ \A r \in {q \in Req : (reqs'[q].kind = "review" \/ reqs' = reqs) /\ CanStart(q)},
         u \in Unprivileged :
        /\ Refused("review")
           \/ ~\E id \in 1..(Len(submissions) + 1), b \in ReviewBodies : ReviewFind(r, u, id, b)
        /\ Refused("pending")
           \/ ~\E q \in PendingQueries : AdminPending(r, u, q) ]_vars

\* both kinds of request were refused while a claim was waiting for review
C19_Witness ==
  /\ Sent("review", 0, 403, "Insufficient permissions") >= 1
  /\ Sent("pending", 0, 403, "Insufficient permissions") >= 1
  /\ \E id \in SubIds : submissions[id].status = "PENDING"

\* the rows that count for the balance of user u now
Spendable(u) ==
  {i \in DOMAIN storeCredits :
     /\ storeCredits[i].userId = u
     /\ storeCredits[i].isRedeemed = FALSE
     /\ ~(storeCredits[i].expiresAt # NoExpiry /\ storeCredits[i].expiresAt <= now)}

RECURSIVE Total(_)
Total(rows) ==
  IF rows = {} THEN 0
  ELSE LET i == CHOOSE j \in rows : TRUE
       IN  storeCredits[i].amount + Total(rows \ {i})

\* C20: every GET /balance answers, as availableBalance, the sum of the
\* amounts of exactly the requesting user's rows that are not redeemed and
\* not expired at the time of the read
C20_BalanceIsSumOfSpendable ==
  [][ (call' # call /\ call'.fn = "getBalance")
      => call'.result.availableBalance = Total(Spendable(call'.args.userId)) ]_vars

\* a balance was read that counts one row of the user and leaves out a
\* redeemed or expired row of the same user
C20_Witness ==
  /\ call.fn = "getBalance"
  /\ \E i, j \in DOMAIN storeCredits :
       /\ i \in Spendable(call.args.userId)
       /\ storeCredits[j].userId = call.args.userId
       /\ j \notin Spendable(call.args.userId)
       /\ storeCredits[j].amount # storeCredits[i].amount
       /\ call.result.availableBalance = storeCredits[i].amount

\* claim a comes before claim b in the review queue: older first, equal
\* submission times by id
QueuedBefore(a, b) ==
  \/ a.submittedAt < b.submittedAt
  \/ a.submittedAt = b.submittedAt /\ a.id < b.id

\* C21: every page that GET /admin/pending answers lists the claims oldest
\* first by submission time, claims of equal submission time by id (so the
\* order is total and consecutive pages neither repeat nor skip a claim)
C21_PendingOrderTotal ==
  [][ \A resp \in PendingAnswered :
        \A i, j \in DOMAIN resp.list :
          i < j => QueuedBefore(submissions[resp.list[i]], submissions[resp.list[j]]) ]_vars

\* C22: the category stored on every claim is one of the four assistance
\* categories, whatever the extraction service answered and whichever route
\* created the claim
C22_CategoryInClosedSet ==
  \A id \in SubIds :
    submissions[id].assistanceType
      \in {"recommendation", "assistance", "consultation", "problem_solving"}

\* the columns of a claim in which a decision rule could be recorded
AuditColumns == {"auditTrail", "decisionRule", "ruleFired"}

\* C23: every claim decided automatically (approved or queued on creation)
\* carries, in its stored data, a record of the rule that produced its status
C23_RuleFiredRecorded ==
  \A id \in SubIds :
    submissions[id].status \in {"APPROVED", "PENDING"} =>
      DOMAIN submissions[id] \cap AuditColumns # {}

\* C24: every claim is created in status RECEIVED, before its category and
\* its confidence are known and before any decision
C24_CreatedReceived ==
  [][ \A id \in DOMAIN submissions' \ DOMAIN submissions :
        /\ submissions'[id].status = "RECEIVED"
        /\ submissions'[id].assistanceType = ""
        /\ submissions'[id].confidenceScore = 0 ]_vars

\* the claims a user with a review role submitted and that are open to review
OwnReviewable(u) ==
  {id \in SubIds : /\ submissions[id].userId = u
                   /\ HasReviewRole(u)
                   /\ IsReviewable(submissions[id].status)}

\* C26: a STAFF or ADMIN user who submitted a claim can review and approve
\* that same claim: whenever a request can start, the approving review of an
\* own reviewable claim passes every check and goes on to the update
C26_SelfReviewAccepted ==
  \A u \in Users : \A id \in OwnReviewable(u) : \A r \in Req :
    CanStart(r) =>
      ENABLED (\E b \in ReviewBodies :
                 /\ b.status = "APPROVED"
                 /\ ReviewFind(r, u, id, b)
                 /\ reqs'[r].pc = "update")

\* a user approved their own claim and holds the ledger entry minted by it
C26_Witness ==
  \E id \in SubIds :
    /\ submissions[id].status = "APPROVED"
    /\ submissions[id].reviewedBy = submissions[id].userId
    /\ \E i \in CreditsOf(id) : storeCredits[i].userId = submissions[id].reviewedBy

\* the review requests that carry an approval with an explicit override amount
WithOverride ==
  {r \in Req : /\ reqs[r].kind = "review"
               /\ reqs[r].data.body.status = "APPROVED"
               /\ reqs[r].data.body.approvedAmount # NoAmount}

\* C27: an approval with an explicit override amount (0 included) writes the
\* override, and not the claimed amount, as the approved amount of the claim
\* and as the amount of the store credit it creates
C27_OverrideIsApprovedAmount ==
  [][ \A r \in WithOverride :
        LET override == reqs[r].data.body.approvedAmount
        IN  /\ (reqs[r].pc = "update" /\ reqs'[r].pc = "credit")
                 => submissions'[reqs[r].subId].approvedAmount = override
            /\ (reqs[r].pc = "credit" /\ Len(storeCredits') > Len(storeCredits))
                 => storeCredits'[Len(storeCredits')].amount = override ]_vars

\* C30: a claim has an approved amount only if its status is APPROVED: a
\* rejection records the reviewer and the notes and no approved amount
C30_ApprovedAmountOnlyIfApproved ==
  \A id \in SubIds :
    submissions[id].approvedAmount # NoAmount => submissions[id].status = "APPROVED"

\* the available credit reported by the answer of a read of the ledger
ReportedCredit(c) ==
  CASE c.fn = "getBalance" -> c.result.availableBalance
    [] c.fn = "checkin"    -> c.result.creditBalance
    [] c.fn = "getStats"   -> c.result.availableCredits

\* C28: GET /credits/balance, the check-in answers and GET /users/stats all
\* report, as the available credit of a user, the sum of the user's rows that
\* are neither redeemed nor expired
C28_SameAvailableCredit ==
  [][ (call' # call /\ call'.fn \in {"getBalance", "checkin", "getStats"})
      => ReportedCredit(call') = Total(Spendable(call'.args.userId)) ]_vars

\* the longest history an extraction service of the repository looks at
\* (history.slice(-4) of OptimalClaudeService)
HistoryCap == 4

\* C25: the conversation history the screen passes to the extraction service
\* holds at most the last HistoryCap turns, however long the conversation is
C25_HistoryBounded ==
  [][ (call' # call /\ call'.fn = "processVoiceSubmission")
      => Len(call'.args.conversationHistory) <= HistoryCap ]_vars

\* C29: what submitClaim sends is the extraction result of the most recent
\* processed turn, and that turn needed no follow-up (a retry after a failed
\* submission sends the same claim again)
C29_SubmitsLatestTurn ==
  [][ (call' # call /\ call'.fn = "submitProcessedClaim")
      => \/ /\ call.fn = "processVoiceSubmission"
            /\ ~call.result.needsFollowUp
            /\ call'.args = SubmissionOf(call.result, call.args.transcript)
         \/ /\ call.fn = "submitProcessedClaim"
            /\ call.throws
            /\ call'.args = call.args ]_vars
====
